---- MODULE Spec2Model ----
(***************************************************************************)
(* KakaoTalk-Analyzer: analyzer.analyze (src/analyzer.py) and the record   *)
(* model it feeds (src/kakaotalk.py), as a state machine.                  *)
(*                                                                         *)
(* A chat export is a finite sequence of text lines.  A line is modelled   *)
(* by what the regular expressions of the pattern table can see of it: its *)
(* shape (which template it was written from), the locale of the template  *)
(* and the captured fields.  Optional values (Python None) are sequences   *)
(* of length 0, a present value v is <<v>>.                                *)
(***************************************************************************)
EXTENDS Integers, Sequences, FiniteSets, TLC

VARIABLES
    file,        \* the lines of the opened file f
    pos,         \* number of lines of f consumed so far (readline / iteration)
    pc,          \* position inside analyze
    lc,          \* analyze: lc
    title,       \* analyze: title
    date_saved,  \* analyze: date_saved
    start_date,  \* analyze: start_date
    end_date,    \* analyze: end_date
    chatroom,    \* analyze: chatroom (None or the Chatroom instance)
    err,         \* exception in flight, None when there is none
    log,         \* records written with log.error, oldest first
    ret,         \* value returned by analyze, None until and unless it returns one
    messages,    \* Chatroom.messages (class-level list)
    events,      \* Chatroom.events (class-level list)
    stats,       \* the class-level counter dictionaries of Chatroom
    arg,         \* argument of the expression under evaluation (expression specifications)
    res,         \* its result
    used,        \* pairs <<n, l>>: line n of f was matched against the patterns match[l]
    rooms        \* Chatroom instances constructed by a caller, with their instance attributes

vars == <<file, pos, pc, lc, title, date_saved, start_date, end_date,
          chatroom, err, log, ret, messages, events, stats, arg, res, used, rooms>>

None == <<>>
Some(v) == <<v>>
IsNone(o) == o = <<>>
Get(o) == o[1]

(***************************************************************************)
(* Bounds                                                                  *)
(***************************************************************************)
MaxLines == 3   \* longest file built from arbitrary lines
MaxBody == 2    \* longest body put after a well-formed header

(***************************************************************************)
(* datetime values                                                         *)
(***************************************************************************)
DateTime(y, mo, d, h, mi, s) ==
    [year |-> y, month |-> mo, day |-> d, hour |-> h, minute |-> mi, second |-> s]

Date(y, mo, d) == DateTime(y, mo, d, 0, 0, 0)

NoDate == Date(0, 0, 0)

(***************************************************************************)
(* Lines.  shape is the template the line was written from, lcs the        *)
(* locales whose template it is; the other fields are the texts the        *)
(* capture groups of that template's pattern see.  text is the line        *)
(* without its terminator.  also names the event patterns that match the   *)
(* line besides the pattern of its own template.                           *)
(***************************************************************************)
Line(shape, lcs, text, ttl, author, hour, minute, ampm, content, date) ==
    [shape |-> shape, lcs |-> lcs, text |-> text, title |-> ttl,
     author |-> author, hour |-> hour, minute |-> minute, ampm |-> ampm,
     content |-> content, date |-> date, also |-> {}]

\* f.readline() at end of file returns the empty string
EmptyString == Line("empty", {}, "", "", "", 0, 0, "", "", NoDate)
Blank == Line("blank", {}, "", "", "", 0, 0, "", "", NoDate)
Prose == Line("text", {}, "random prose", "", "", 0, 0, "", "", NoDate)
Continued == Line("text", {}, "continued line", "", "", 0, 0, "", "", NoDate)

\* the string the file object yields for a line: its text and the newline
raw(line) == IF line.shape = "empty" THEN "" ELSE line.text \o "\n"

Metadata1(l, text, ttl) == Line("metadata_1", l, text, ttl, "", 0, 0, "", "", NoDate)
Metadata2(l, text, dt) == Line("metadata_2", l, text, "", "", 0, 0, "", "", dt)
DateTag(l, text, dt) == Line("date_tag", l, text, "", "", 0, 0, "", "", dt)
MessageLine(l, text, author, hour, minute, ampm, content) ==
    Line("message", l, text, "", author, hour, minute, ampm, content, NoDate)
EventLine(kind, l, text) == Line(kind, l, text, "", "", 0, 0, "", "", NoDate)

Saved == DateTime(2021, 5, 1, 10, 0, 0)
May01 == Date(2021, 5, 1)
May02 == Date(2021, 5, 2)

EnMetadata1 == Metadata1({"en"}, "Alice with KakaoTalk Chats", "Alice")
KoMetadata1 == Metadata1({"ko"}, "Alice nimgwa kakaotok daehwa", "Alice")
EnMetadata2 == Metadata2({"en"}, "Date Saved: 2021-05-01 10:00:00", Saved)
KoMetadata2 == Metadata2({"ko"}, "jeojanghan naljja : 2021-05-01 10:00:00", Saved)

EnDateTag1 == DateTag({"en"}, "--------------- Saturday, May 01, 2021 ---------------", May01)
EnDateTag2 == DateTag({"en"}, "--------------- Sunday, May 02, 2021 ---------------", May02)
KoDateTag1 == DateTag({"ko"}, "--------------- 2021nyeon 5wol 1il toyoil ---------------", May01)

EnHello == MessageLine({"en"}, "[Bob] [3:15 PM] Hello there", "Bob", 3, 15, "P", "Hello there")
EnPhoto == MessageLine({"en"}, "[Bob] [3:16 PM] Photo", "Bob", 3, 16, "P", "Photo")
EnMidnight == MessageLine({"en"}, "[Bob] [12:05 AM] Photo", "Bob", 12, 5, "A", "Photo")
\* message lines that match the pattern and fail the time computation
EnBadToken == MessageLine({"en"}, "[Bob] [3:18 XM] Photo", "Bob", 3, 18, "X", "Photo")
EnNoon == MessageLine({"en"}, "[Bob] [12:30 PM] Photo", "Bob", 12, 30, "P", "Photo")
KoPhoto == MessageLine({"ko"}, "[Bob] [ohu 3:16] sajin", "Bob", 3, 16, "hu", "sajin")

\* a message whose text starts like an invite line: both patterns match it
EnQuoted ==
    [MessageLine({"en"}, "[Bob] [3:17 PM] a invited b.", "Bob", 3, 17, "P", "a invited b.")
        EXCEPT !.also = {"invite"}]

EnInvite == EventLine("invite", {"en"}, "Carol invited Dave.")
EnLeave == EventLine("leave", {"en"}, "Carol left.")
KoInvite == EventLine("invite", {"ko"}, "Carol-nimi Dave-nimeul chodaehayeotseumnida.")
KoLeave == EventLine("leave", {"ko"}, "Carol-nimi nagatseumnida.")
\* an invite line whose inviter text ends like a leave line
EnInviteLeft ==
    [EventLine("invite", {"en"}, "Carol left. invited Dave.") EXCEPT !.also = {"leave"}]

HeaderLines == {EnMetadata1, KoMetadata1, EnMetadata2, KoMetadata2, Blank, Prose}

BodyLines(l) ==
    IF l = "en"
    THEN {EnDateTag1, EnDateTag2, EnHello, EnPhoto, EnMidnight, EnNoon, EnBadToken,
          EnQuoted, EnInvite, EnLeave, EnInviteLeft, Continued}
    ELSE {KoDateTag1, KoPhoto, KoInvite, KoLeave, Continued}

Lines == HeaderLines \cup BodyLines("en") \cup BodyLines("ko")

(***************************************************************************)
(* Files                                                                   *)
(***************************************************************************)
RECURSIVE SeqsUpTo(_, _)
SeqsUpTo(S, n) ==
    IF n = 0 THEN {<<>>}
    ELSE LET shorter == SeqsUpTo(S, n - 1)
         IN shorter \cup {Append(q, x) : q \in shorter, x \in S}

Header(l) ==
    IF l = "en" THEN <<EnMetadata1, EnMetadata2, Blank>>
    ELSE <<KoMetadata1, KoMetadata2, Blank>>

\* the end-to-end scenario of the specification, line by line
ExampleFile ==
    <<EnMetadata1, EnMetadata2, Blank, EnDateTag1, EnHello, Continued,
      EnPhoto, EnInvite, EnLeave>>

\* every short file over all lines, every well-formed header followed by a
\* short body of its locale, and the end-to-end scenario
Files ==
    SeqsUpTo(Lines, MaxLines)
    \cup UNION {{Header(l) \o b : b \in SeqsUpTo(BodyLines(l), MaxBody)} : l \in {"en", "ko"}}
    \cup {ExampleFile}

(***************************************************************************)
(* Pattern table                                                           *)
(***************************************************************************)
locales == <<"en", "ko">>

\* re.match(match[l]['metadata'][1], line): group(1), the chatroom title
\* the pattern of the first supported locale applied whatever locale is asked for
match_metadata_1_of_first_locale(l, line) ==
    IF line.shape = "metadata_1" THEN Some(line.title) ELSE None

match_metadata_1(l, line) ==
    IF line.shape = "metadata_1" /\ l \in line.lcs THEN Some(line.title) ELSE None

\* re.match(match[l]['metadata'][2], line): group(1), the export timestamp
match_metadata_2(l, line) ==
    IF line.shape = "metadata_2" /\ l \in line.lcs THEN Some(line.date) ELSE None

\* re.match(match[l]['message'], line): the five groups in the order of the
\* locale's pattern (en: author, hour, minute, A/P, content; ko: author,
\* jeon/hu, hour, minute, content)
match_message(l, line) ==
    IF line.shape = "message" /\ l \in line.lcs
    THEN Some(IF l = "en"
              THEN <<line.author, line.hour, line.minute, line.ampm, line.content>>
              ELSE <<line.author, line.ampm, line.hour, line.minute, line.content>>)
    ELSE None

\* re.match(match[l]['date_tag'], line): group(1), the date as written
match_date_tag(l, line) ==
    IF line.shape = "date_tag" /\ l \in line.lcs THEN Some(line.date) ELSE None

\* re.match(match[l]['event'][event_type], line) is not None
match_event(l, event_type, line) ==
    /\ l \in line.lcs
    /\ line.shape = event_type \/ (line.shape \in {"message", "invite", "leave"}
                                   /\ event_type \in line.also)

locale_hours ==
    [en |-> [A |-> 0, P |-> 12],
     ko |-> [jeon |-> 0, hu |-> 12]]

locale_time_format ==
    [en |-> [ampm |-> 4, hour |-> 2, minute |-> 3],
     ko |-> [ampm |-> 2, hour |-> 3, minute |-> 4]]

\* the list literal of lines 183-189: the comma after 'deleted' is missing,
\* so the last two strings are one element
rich_content_types == <<"stickers", "photo", "video", "deletedvoice_note">>

rich_content_regex_types == <<"youtube_link", "link", "file">>

rich_content_regex_duraton_types ==
    <<"voice_call", "video_call", "voice_call_hr", "video_call_hr", "live_talk", "live_talk_hr">>

\* match[l]['rich_content']: the labels of the entries compared by equality
rich_content ==
    [en |-> [stickers |-> "Emoticons", photo |-> "Photo", video |-> "videos",
             deleted |-> "This message was deleted.", voice_note |-> "Voice Note"],
     ko |-> [stickers |-> "imotikon", photo |-> "sajin", video |-> "dongyeongsang",
             deleted |-> "sakjedoen mesijiimnida.", voice_note |-> "Voice Note"]]

(***************************************************************************)
(* Exceptions                                                              *)
(***************************************************************************)
Exception(type, msg) == [type |-> type, msg |-> msg]

Ok(v) == [exc |-> None, val |-> Some(v)]
Raise(type, msg) == [exc |-> Some(Exception(type, msg)), val |-> None]

DaysInMonth(y, m) ==
    IF m \in {4, 6, 9, 11} THEN 30
    ELSE IF m = 2 THEN (IF (y % 4 = 0 /\ y % 100 # 0) \/ y % 400 = 0 THEN 29 ELSE 28)
    ELSE 31

ValidDateTime(dt) ==
    /\ dt.year \in 1..9999
    /\ dt.month \in 1..12
    /\ dt.day \in 1..DaysInMonth(dt.year, dt.month)
    /\ dt.hour \in 0..23
    /\ dt.minute \in 0..59
    /\ dt.second \in 0..59

\* analyzer.py binds the name datetime with "import datetime": it is the
\* module, which has no attribute strptime (kakaotalk.py imports the class).
datetime_has_strptime == FALSE

\* the attribute lookup datetime.strptime in analyzer.py
NoStrptime == Raise("AttributeError", "module 'datetime' has no attribute 'strptime'")

\* datetime.strptime(date_string, '%Y-%m-%d %H:%M:%S') of the datetime class
strptime(date_string) ==
    IF ValidDateTime(date_string)
    THEN Ok(date_string)
    ELSE Raise("ValueError", "time data does not match format")

\* a capture of \d{,2} that matched no digit
EmptyDigits == -1

\* int(text) of a captured digit string
int(text) ==
    IF text = EmptyDigits
    THEN Raise("ValueError", "invalid literal for int() with base 10: ''")
    ELSE Ok(text)

\* datetime.strptime(date_string, date_tag_format[l]) as analyze evaluates it.
\* The en format is '%B %m, %Y': the number after the month name is read as
\* the month and no day is read, so the day is 1.
strptime_date_tag(l, date_string) ==
    IF ~datetime_has_strptime THEN NoStrptime
    ELSE LET date == IF l = "en"
                     THEN Date(date_string.year, date_string.day, 1)
                     ELSE date_string
         IN IF ValidDateTime(date) THEN Ok(date)
            ELSE Raise("ValueError", "time data does not match format")

\* lines 378-386: the time of a message line with groups g
message_time(l, end, g) ==
    IF IsNone(end) THEN Ok(None)
    ELSE LET raw_hour == int(g[locale_time_format[l].hour])
             ampm == g[locale_time_format[l].ampm]
             raw_minute == int(g[locale_time_format[l].minute])
         IN IF ~IsNone(raw_hour.exc) THEN raw_hour
            ELSE IF ampm \notin DOMAIN locale_hours[l] THEN Raise("KeyError", ampm)
            ELSE IF ~IsNone(raw_minute.exc) THEN raw_minute
            ELSE LET hour == Get(raw_hour.val) + locale_hours[l][ampm]
                     minute == Get(raw_minute.val)
                 IN IF hour \notin 0..23 THEN Raise("ValueError", "hour must be in 0..23")
                    ELSE IF minute \notin 0..59
                    THEN Raise("ValueError", "minute must be in 0..59")
                    ELSE Ok(Some([Get(end) EXCEPT !.hour = hour, !.minute = minute]))

\* lines 393-397: the rich content types compared by equality, from entry i on
RECURSIVE rich_content_exact(_, _, _)
rich_content_exact(l, content, i) ==
    IF i > Len(rich_content_types) THEN Ok(None)
    ELSE LET rc_type == rich_content_types[i]
         IN IF rc_type \notin DOMAIN rich_content[l] THEN Raise("KeyError", rc_type)
            ELSE IF content = rich_content[l][rc_type] THEN Ok(Some(rc_type))
            ELSE rich_content_exact(l, content, i + 1)

\* lines 388-422: rich content type and duration of a message content.
\* Lines 402 and 410 call re.match with the pattern only.
rich_content_of(l, content) ==
    LET exact == rich_content_exact(l, content, 1)
    IN IF ~IsNone(exact.exc) THEN exact
       ELSE IF ~IsNone(Get(exact.val))
       THEN Ok([rich_content_type |-> Get(exact.val), rich_content_duration |-> None])
       ELSE Raise("TypeError", "match() missing 1 required positional argument: 'string'")

(***************************************************************************)
(* kakaotalk.Chatroom                                                      *)
(***************************************************************************)
\* Message(time, author, content, rich_content_type, rich_content_duration)
Message(time, author, content, rich_content_type, rich_content_duration) ==
    [time |-> time, author |-> author, content |-> content,
     rich_content_type |-> rich_content_type,
     rich_content_duration |-> rich_content_duration]

\* Message.append(content)
Message_append(msg, content) ==
    [msg EXCEPT !.content = msg.content \o "\n" \o content]

\* Event(event_type, content)
Event(event_type, content) == [event_type |-> event_type, content |-> content]

\* the dictionaries defined in the class body of Chatroom
Chatroom_stats ==
    [message_count_by_month |-> <<>>,
     message_count_by_time_of_day |-> <<>>,
     message_count_by_participant |-> <<>>,
     rich_content_count |->
        [sticker |-> 0, photo |-> 0, video |-> 0, deleted |-> 0, voice_note |-> 0,
         youtube_link |-> 0, link |-> 0, file |-> 0, voice_call |-> 0,
         video_call |-> 0, live_talk |-> 0],
     rich_content_duration |-> [voice_call |-> 0, video_call |-> 0, live_talk |-> 0],
     event_count |-> [invite |-> 0, leave |-> 0]]

\* Chatroom(title, date_saved): __init__ sets title and date_saved; the
\* scalar attributes read as the class attributes until first assigned
Chatroom__init__(t, d) ==
    [title |-> t, date_saved |-> d, start_date |-> None, end_date |-> None,
     message_count |-> 0, day_count |-> 0,
     date_most_active_message |-> [date |-> None, count |-> -1],
     date_most_active_media |-> [date |-> None, count |-> -1],
     date_most_active_sticker |-> [date |-> None, count |-> -1],
     date_message_count |-> 0, date_media_count |-> 0, date_sticker_count |-> 0]

\* d[k] += 1, or d[k] = 1 for a new key
Count(d, k) == IF k \in DOMAIN d THEN [d EXCEPT ![k] = @ + 1] ELSE d @@ (k :> 1)

\* str.replace('_hr', '') on the rich content types
strip_hr(t) ==
    CASE t = "voice_call_hr" -> "voice_call"
      [] t = "video_call_hr" -> "video_call"
      [] t = "live_talk_hr" -> "live_talk"
      [] OTHER -> t

Effect(c, msgs, st, exc) == [chatroom |-> c, messages |-> msgs, stats |-> st, exc |-> exc]

\* Chatroom.add_message(msg) on instance c: the state it leaves and the
\* exception it ends with, if any.  same tells whether the object
\* msg.rich_content_type is the very object of the string literal it equals,
\* which is what the "is" comparisons of lines 272 and 276 test.  (The
\* weekday, word and letter statistics, which need no more than a valid time
\* and content, are left out.)
add_message(c, msgs, st, m, same) ==
    LET msg == IF ~IsNone(m.rich_content_type)
               THEN [m EXCEPT !.rich_content_type = Some(strip_hr(Get(@)))]
               ELSE m
        msgs1 == Append(msgs, msg)
        c1 == [c EXCEPT !.message_count = @ + 1]
    IN IF IsNone(msg.time)
       THEN Effect(c1, msgs1, st,
                   Some(Exception("AttributeError",
                                  "'NoneType' object has no attribute 'strftime'")))
       ELSE
       LET time == Get(msg.time)
           st1 == [st EXCEPT
                     !.message_count_by_month = Count(@, time.year * 100 + time.month),
                     !.message_count_by_time_of_day = Count(@, time.hour),
                     !.message_count_by_participant = Count(@, msg.author)]
           is(t) == same /\ msg.rich_content_type = Some(t)
           c2 == [c1 EXCEPT
                    !.date_message_count = @ + 1,
                    !.date_media_count = IF is("photo") \/ is("video") THEN @ + 1 ELSE @,
                    !.date_sticker_count = IF is("sticker") THEN @ + 1 ELSE @]
       IN IF IsNone(msg.rich_content_type) THEN Effect(c2, msgs1, st1, None)
          ELSE
          LET t == Get(msg.rich_content_type)
          IN IF t \notin DOMAIN st1.rich_content_count
             THEN Effect(c2, msgs1, st1, Some(Exception("KeyError", t)))
             ELSE
             LET st2 == [st1 EXCEPT !.rich_content_count[t] = @ + 1]
             IN IF IsNone(msg.rich_content_duration) THEN Effect(c2, msgs1, st2, None)
                ELSE IF t \notin DOMAIN st2.rich_content_duration
                THEN Effect(c2, msgs1, st2, Some(Exception("KeyError", t)))
                ELSE Effect(c2, msgs1,
                            [st2 EXCEPT !.rich_content_duration[t] =
                                            @ + Get(msg.rich_content_duration)],
                            None)

\* the event put in front of the list instead of at its end
add_event_first(evs, st, event) ==
    [events |-> <<event>> \o evs,
     stats |-> [st EXCEPT !.event_count[event.event_type] = @ + 1]]

\* Chatroom.add_event(event): the event list and the event counters after it
add_event(evs, st, event) ==
    [events |-> Append(evs, event),
     stats |-> [st EXCEPT !.event_count[event.event_type] = @ + 1]]

\* most_active = (date, count) if most_active[1] < count
MostActive(most_active, date, count) ==
    IF most_active.count < count THEN [date |-> date, count |-> count] ELSE most_active

\* Chatroom.set_end_date(date) on instance c
set_end_date(c, date) ==
    [c EXCEPT
       !.date_most_active_message = MostActive(@, c.end_date, c.date_message_count),
       !.date_most_active_media = MostActive(@, c.end_date, c.date_media_count),
       !.date_most_active_sticker = MostActive(@, c.end_date, c.date_sticker_count),
       !.end_date = Some(date),
       !.date_message_count = 0,
       !.date_media_count = 0,
       !.date_sticker_count = 0,
       !.day_count = @ + 1]

(***************************************************************************)
(* analyze                                                                 *)
(***************************************************************************)
Init ==
    /\ file \in Files
    /\ pos = 0
    /\ pc = "metadata_1"
    /\ lc = None
    /\ title = None
    /\ date_saved = None
    /\ start_date = None
    /\ end_date = None
    /\ chatroom = None
    /\ err = None
    /\ log = <<>>
    /\ ret = None
    /\ messages = <<>>
    /\ events = <<>>
    /\ stats = Chatroom_stats
    /\ arg = None
    /\ res = None
    /\ used = {}
    /\ rooms = <<>>

\* f.readline(): the next line, or '' at end of file
readline(f, p) == IF p < Len(f) THEN f[p + 1] ELSE EmptyString
\* a read that leaves the file position where it was
no_advance(f, p) == p

\* the file position after f.readline() or one iteration of "for line in f"
advance(f, p) == IF p < Len(f) THEN p + 1 ELSE p

\* lines 331-343: read the first line and determine the locale
ReadMetadata1 ==
    /\ pc = "metadata_1"
    /\ LET metadata_1 == readline(file, pos)
           found == {i \in DOMAIN locales : ~IsNone(match_metadata_1(locales[i], metadata_1))}
       IN /\ pos' = advance(file, pos)
          /\ IF found = {}
             THEN /\ err' = Some(Exception("ValueError",
                                 "locale not supported or format not recognized"))
                  /\ pc' = "except_1"
                  /\ UNCHANGED <<lc, title>>
             ELSE LET i == CHOOSE j \in found : \A k \in found : j <= k
                  IN /\ lc' = Some(locales[i])
                     /\ title' = match_metadata_1(locales[i], metadata_1)
                     /\ pc' = "metadata_2"
                     /\ UNCHANGED err
          /\ used' = used \cup {<<pos + 1, locales[i]>> :
                                  i \in {j \in DOMAIN locales : \A k \in found : j <= k}}
    /\ UNCHANGED <<file, date_saved, start_date, end_date, chatroom, log, ret,
                   messages, events, stats, arg, res, rooms>>

\* lines 345-356: read the second line, parse the saved date, construct the
\* Chatroom and skip the line after the header
ReadMetadata2 ==
    /\ pc = "metadata_2"
    /\ LET metadata_2 == readline(file, pos)
           match_date_saved == match_metadata_2(Get(lc), metadata_2)
           parsed == IF ~datetime_has_strptime THEN NoStrptime
                     ELSE IF IsNone(match_date_saved)
                     THEN Raise("AttributeError",
                                "'NoneType' object has no attribute 'group'")
                     ELSE strptime(Get(match_date_saved))
       IN IF IsNone(parsed.exc)
          THEN /\ date_saved' = parsed.val
               /\ chatroom' = Some(Chatroom__init__(title, parsed.val))
               /\ pos' = advance(file, advance(file, pos))
               /\ pc' = "try_2"
               /\ UNCHANGED err
          ELSE /\ err' = parsed.exc
               /\ pos' = advance(file, pos)
               /\ pc' = "except_1"
               /\ UNCHANGED <<date_saved, chatroom>>
    /\ used' = used \cup {<<pos + 1, Get(lc)>>}
    /\ UNCHANGED <<file, lc, title, start_date, end_date, log, ret,
                   messages, events, stats, arg, res, rooms>>

\* the bare handler of lines 360-361 taking every exception
except_1_bare(e) == "cannot read the metadata of the file"

\* lines 358-361: what the handler that takes exception e logs
except_1_message(e) ==
    IF e.type = "ValueError" THEN e.msg ELSE "cannot read the metadata of the file"

\* lines 358-361: the handlers of the first try block
Except1 ==
    /\ pc = "except_1"
    /\ log' = Append(log, except_1_message(Get(err)))
    /\ err' = None
    /\ pc' = "try_2"
    /\ UNCHANGED <<file, pos, lc, title, date_saved, start_date, end_date,
                   chatroom, ret, messages, events, stats, arg, res, used, rooms>>

\* the test of line 364 inverted
chatroom_is_not_None(c) == ~IsNone(c)

\* line 364: if chatroom is None
chatroom_is_None(c) == IsNone(c)

\* lines 363-365: the second try block is entered; without a Chatroom it raises
TryBody ==
    /\ pc = "try_2"
    /\ IF chatroom_is_None(chatroom)
       THEN /\ err' = Some(Exception("ValueError", "kakaotalk.Chatroom is not initialized"))
            /\ pc' = "except_2"
       ELSE /\ pc' = "for_line"
            /\ UNCHANGED err
    /\ UNCHANGED <<file, pos, lc, title, date_saved, start_date, end_date,
                   chatroom, log, ret, messages, events, stats, arg, res, used, rooms>>

\* chatroom.messages[0]
first_message(msgs) == 1

\* line 467: chatroom.messages[-1]
last_message(msgs) == Len(msgs)

LoopEffect(c, msgs, evs, st, sd, ed, exc) ==
    [chatroom |-> c, messages |-> msgs, events |-> evs, stats |-> st,
     start_date |-> sd, end_date |-> ed, exc |-> exc]

\* lines 373-467: the body of the for loop on one line
for_line(l, line, c, msgs, evs, st, sd, ed) ==
    LET matches == match_message(l, line)
        date_matches == match_date_tag(l, line)
    IN IF ~IsNone(matches)
       THEN \* 1. Message match
            LET g == Get(matches)
                time == message_time(l, ed, g)
                rc == rich_content_of(l, g[5])
            IN IF ~IsNone(time.exc) THEN LoopEffect(c, msgs, evs, st, sd, ed, time.exc)
               ELSE IF ~IsNone(rc.exc) THEN LoopEffect(c, msgs, evs, st, sd, ed, rc.exc)
               ELSE LET added == add_message(c, msgs, st,
                                     Message(Get(time.val), g[1], g[5],
                                             Get(rc.val).rich_content_type,
                                             Get(rc.val).rich_content_duration),
                                     \* the tag is the literal of rich_content_types
                                     TRUE)
                    IN LoopEffect(added.chatroom, added.messages, evs, added.stats,
                                  sd, ed, added.exc)
       ELSE IF ~IsNone(date_matches)
       THEN \* 2. Date tag match
            LET date == strptime_date_tag(l, Get(date_matches))
            IN IF ~IsNone(date.exc) THEN LoopEffect(c, msgs, evs, st, sd, ed, date.exc)
               ELSE LoopEffect(c, msgs, evs, st,
                               IF IsNone(sd) THEN date.val ELSE sd, date.val, None)
       ELSE IF match_event(l, "invite", line) \/ match_event(l, "leave", line)
       THEN \* 3. Event match, invite tried first
            LET event_type == IF match_event(l, "invite", line) THEN "invite" ELSE "leave"
                added == add_event(evs, st, Event(event_type, raw(line)))
            IN LoopEffect(c, msgs, added.events, added.stats, sd, ed, None)
       ELSE IF Len(msgs) > 0
       THEN \* 4. Multi-line message match
            LoopEffect(c, [msgs EXCEPT ![last_message(msgs)] = Message_append(@, raw(line))],
                       evs, st, sd, ed, None)
       ELSE LoopEffect(c, msgs, evs, st, sd, ed, None)

\* lines 371-467: one iteration of "for line in f", or the end of the loop
ForLine ==
    /\ pc = "for_line"
    /\ IF pos >= Len(file)
       THEN /\ pc' = "return"
            /\ UNCHANGED <<pos, chatroom, messages, events, stats, start_date,
                           end_date, err, used>>
       ELSE LET e == for_line(Get(lc), file[pos + 1], Get(chatroom), messages,
                              events, stats, start_date, end_date)
            IN /\ pos' = pos + 1
               /\ chatroom' = Some(e.chatroom)
               /\ messages' = e.messages
               /\ events' = e.events
               /\ stats' = e.stats
               /\ start_date' = e.start_date
               /\ end_date' = e.end_date
               /\ err' = e.exc
               /\ pc' = IF IsNone(e.exc) THEN "for_line" ELSE "except_2"
               /\ used' = used \cup {<<pos + 1, Get(lc)>>}
    /\ UNCHANGED <<file, lc, title, date_saved, log, ret, arg, res, rooms>>

\* lines 469-472: the handlers of the second try block
Except2 ==
    /\ pc = "except_2"
    /\ log' = Append(log, IF Get(err).type = "ValueError"
                          THEN Get(err).msg
                          ELSE "cannot parse the given chat log")
    /\ err' = None
    /\ pc' = "return"
    /\ UNCHANGED <<file, pos, lc, title, date_saved, start_date, end_date,
                   chatroom, ret, messages, events, stats, arg, res, used, rooms>>

\* what analyze hands back: the function body ends without a return statement
ReturnValue(c) == None

\* line 472: the with block is left and analyze returns
Return ==
    /\ pc = "return"
    /\ ret' = ReturnValue(chatroom)
    /\ pc' = "done"
    /\ UNCHANGED <<file, pos, lc, title, date_saved, start_date, end_date,
                   chatroom, err, log, messages, events, stats, arg, res, used, rooms>>

Next == ReadMetadata1 \/ ReadMetadata2 \/ Except1 \/ TryBody \/ Except2 \/ Return

Spec == Init /\ [][Next]_vars

\* analyze is one sequential call: it runs to its end once started
SpecFair == Spec /\ WF_vars(Next)

(***************************************************************************)
(* The second try block on its own: the state the first try block leaves   *)
(* when lines 331-356 complete, followed by the loop.  Spec never gets     *)
(* there (ReadMetadata2 always raises), so the loop is examined here.      *)
(***************************************************************************)
MaxLoopBody == 3

InitLoop ==
    \E l \in {"en", "ko"} :
        /\ file \in {Header(l) \o b : b \in SeqsUpTo(BodyLines(l), MaxLoopBody)}
        /\ pos = 3
        /\ pc = "try_2"
        /\ lc = Some(l)
        /\ title = Some("Alice")
        /\ date_saved = Some(Saved)
        /\ start_date = None
        /\ end_date = None
        /\ chatroom = Some(Chatroom__init__(Some("Alice"), Some(Saved)))
        /\ err = None
        /\ log = <<>>
        /\ ret = None
        /\ messages = <<>>
        /\ events = <<>>
        /\ stats = Chatroom_stats
        /\ arg = None
        /\ res = None
        /\ used = {<<1, k>> : k \in IF l = "en" THEN {"en"} ELSE {"en", "ko"}} \cup {<<2, l>>}
        /\ rooms = <<>>

NextLoop == TryBody \/ ForLine \/ Except2 \/ Return

SpecLoop == InitLoop /\ [][NextLoop]_vars

(***************************************************************************)
(* The loop from a state in which Messages can be emitted and the loop go  *)
(* on: a Chatroom has been constructed and the date context end_date is    *)
(* set, so that add_message gets a Message with a time.  analyze does not  *)
(* get there (ReadMetadata2 always raises, and so does the strptime call   *)
(* of line 442 that sets end_date); lines 373-467 are examined here for    *)
(* what they do to the records once there are some.                        *)
(***************************************************************************)
MaxLifeBody == 4

LifeLines(l) ==
    IF l = "en" THEN {EnDateTag1, EnPhoto, EnMidnight, EnInvite, Continued}
    ELSE {KoDateTag1, KoPhoto, KoInvite, KoLeave, Continued}

InitLife ==
    \E l \in {"en", "ko"} :
        /\ file \in {Header(l) \o b : b \in SeqsUpTo(LifeLines(l), MaxLifeBody)}
        /\ pos = 3
        /\ pc = "try_2"
        /\ lc = Some(l)
        /\ title = Some("Alice")
        /\ date_saved = Some(Saved)
        /\ start_date = Some(May01)
        /\ end_date = Some(May01)
        /\ chatroom = Some(Chatroom__init__(Some("Alice"), Some(Saved)))
        /\ err = None
        /\ log = <<>>
        /\ ret = None
        /\ messages = <<>>
        /\ events = <<>>
        /\ stats = Chatroom_stats
        /\ arg = None
        /\ res = None
        /\ used = {<<1, k>> : k \in IF l = "en" THEN {"en"} ELSE {"en", "ko"}} \cup {<<2, l>>}
        /\ rooms = <<>>

SpecLife == InitLife /\ [][NextLoop]_vars

(***************************************************************************)
(* Lines 388-436 on their own: the content of a matched message line is    *)
(* classified and the Message is handed to add_message of a Chatroom that  *)
(* holds nothing yet.  A content is modelled like a line: the template it  *)
(* was written from, the locales whose label or pattern of that name it    *)
(* satisfies, its text and the numbers written in it.                      *)
(***************************************************************************)
MaxCallHours == 2

Content(shape, lcs, text, h, m, s) ==
    [shape |-> shape, lcs |-> lcs, text |-> text, h |-> h, m |-> m, s |-> s]

TwoDigits(n) == IF n < 10 THEN "0" \o ToString(n) ELSE ToString(n)

\* the exact labels of lines 66-71, 90-91 and 144-149, 168-169
LabelContents ==
    {Content(t, {l \in {"en", "ko"} : rich_content[l][t] = rich_content[k][t]},
             rich_content[k][t], 0, 0, 0) :
        t \in {"stickers", "photo", "video", "deleted", "voice_note"}, k \in {"en", "ko"}}

\* contents written from the presence patterns of lines 68-70 and 146-148
PresenceContents ==
    {Content("youtube_link", {"en", "ko"}, "https://youtu.be/abc", 0, 0, 0),
     Content("link", {"en", "ko"}, "https://example.com/a", 0, 0, 0),
     Content("link", {"en", "ko"}, "www.example.com", 0, 0, 0),
     Content("file", {"en"}, "File: report.pdf", 0, 0, 0),
     Content("file", {"ko"}, "pail: report.pdf", 0, 0, 0)}

CallPrefix(t) ==
    CASE t = "voice_call" -> "Voice Call "
      [] t = "video_call" -> "Video Call "
      [] t = "live_talk" -> "Live Talk ended "

\* contents written from the duration patterns of lines 72-91 and 150-169
DurationContents ==
    {Content(t, {"en", "ko"}, CallPrefix(t) \o TwoDigits(m) \o ":" \o TwoDigits(sec), 0, m, sec) :
        t \in {"voice_call", "video_call", "live_talk"}, m \in {0, 5, 59}, sec \in {0, 30, 59}}
    \cup
    {Content(t \o "_hr", {"en", "ko"},
             CallPrefix(t) \o TwoDigits(h) \o ":" \o TwoDigits(m) \o ":" \o TwoDigits(sec),
             h, m, sec) :
        t \in {"voice_call", "video_call", "live_talk"}, h \in 1..MaxCallHours,
        m \in {0, 5, 59}, sec \in {0, 30, 59}}

PlainContents ==
    {Content("text", {}, "Hello there", 0, 0, 0), Content("text", {}, "ok", 0, 0, 0)}

Contents == LabelContents \cup PresenceContents \cup DurationContents \cup PlainContents

InitRich ==
    /\ arg \in {Some([lc |-> l, content |-> c,
                      time |-> Some([May01 EXCEPT !.hour = 15, !.minute = 16])]) :
                   l \in {"en", "ko"}, c \in Contents}
    /\ res = None
    /\ pc = "rich_content"
    /\ file = <<>>
    /\ pos = 0
    /\ lc = None
    /\ title = None
    /\ date_saved = None
    /\ start_date = None
    /\ end_date = None
    /\ chatroom = None
    /\ err = None
    /\ log = <<>>
    /\ ret = None
    /\ messages = <<>>
    /\ events = <<>>
    /\ stats = Chatroom_stats
    /\ used = {}
    /\ rooms = <<>>

\* lines 388-436: classify the content, then chatroom.add_message(Message(...))
EvalRich ==
    /\ pc = "rich_content"
    /\ LET a == Get(arg)
           rc == rich_content_of(a.lc, a.content.text)
       IN res' = Some([rc |-> rc,
                       added |-> IF ~IsNone(rc.exc) THEN None
                                 ELSE Some(add_message(
                                          Chatroom__init__(Some("Alice"), Some(Saved)),
                                          <<>>, Chatroom_stats,
                                          Message(a.time, "Bob", a.content.text,
                                                  Get(rc.val).rich_content_type,
                                                  Get(rc.val).rich_content_duration),
                                          TRUE))])
    /\ pc' = "rich_content_done"
    /\ UNCHANGED <<file, pos, lc, title, date_saved, start_date, end_date, chatroom,
                   err, log, ret, messages, events, stats, arg, used, rooms>>

NextRich == EvalRich

SpecRich == InitRich /\ [][NextRich]_vars

(***************************************************************************)
(* kakaotalk.Chatroom used directly: a caller constructs Chatroom          *)
(* instances and hands them Messages and Events.  messages, events and the *)
(* counter dictionaries are attributes of the class, which every instance  *)
(* reads and mutates in place; title, date_saved and message_count are     *)
(* attributes of the instance once assigned.  rooms[i].self holds the      *)
(* instance attributes of the i-th instance, rooms[i].added the records    *)
(* the caller has handed to it, oldest first.                              *)
(***************************************************************************)
MaxRooms == 2
MaxCalls == 3

SampleTime == [May01 EXCEPT !.hour = 15, !.minute = 16]

SampleMessages ==
    {Message(Some(SampleTime), "Bob", "Hello there", None, None),
     Message(Some(SampleTime), "Bob", "Photo", Some("photo"), None),
     Message(Some(SampleTime), "Carol", "Voice Call 01:05:30", Some("voice_call_hr"), Some(3930))}

\* Messages on which add_message ends in an exception: no time (what lines
\* 378-379 pass when no date tag has been read), and the tag 'stickers'
FailingMessages ==
    {Message(None, "Bob", "Hello there", None, None),
     Message(Some(SampleTime), "Bob", "Emoticons", Some("stickers"), None)}

SampleEvents ==
    {Event("invite", "Carol invited Dave.\n"), Event("leave", "Carol left.\n")}

Calls == LET n[i \in 0..Len(rooms)] == IF i = 0 THEN 0 ELSE n[i - 1] + Len(rooms[i].added)
         IN n[Len(rooms)]

InitChatroom ==
    /\ rooms = <<>>
    /\ messages = <<>>
    /\ events = <<>>
    /\ stats = Chatroom_stats
    /\ pc = "caller"
    /\ err = None
    /\ file = <<>>
    /\ pos = 0
    /\ lc = None
    /\ title = None
    /\ date_saved = None
    /\ start_date = None
    /\ end_date = None
    /\ chatroom = None
    /\ log = <<>>
    /\ ret = None
    /\ arg = None
    /\ res = None
    /\ used = {}

\* Chatroom(title, date_saved)
NewChatroom ==
    /\ pc = "caller"
    /\ Len(rooms) < MaxRooms
    /\ rooms' = Append(rooms, [self |-> Chatroom__init__(Some("Alice"), Some(Saved)),
                               added |-> <<>>])
    /\ err' = None
    /\ UNCHANGED <<file, pos, pc, lc, title, date_saved, start_date, end_date, chatroom,
                   log, ret, messages, events, stats, arg, res, used>>

\* rooms[i].add_message(msg); err is the exception the call ends with
AddMessage ==
    /\ pc = "caller"
    /\ Calls < MaxCalls
    /\ \E i \in DOMAIN rooms : \E msg \in SampleMessages \cup FailingMessages :
       \E same \in BOOLEAN :
           LET e == add_message(rooms[i].self, messages, stats, msg, same)
           IN /\ rooms' = [rooms EXCEPT ![i].self = e.chatroom,
                                        ![i].added = Append(@, [message |-> Some(msg),
                                                                event |-> None,
                                                                date |-> None])]
              /\ messages' = e.messages
              /\ stats' = e.stats
              /\ err' = e.exc
    /\ UNCHANGED <<file, pos, pc, lc, title, date_saved, start_date, end_date, chatroom,
                   log, ret, events, arg, res, used>>

\* rooms[i].add_event(event)
AddEvent ==
    /\ pc = "caller"
    /\ Calls < MaxCalls
    /\ \E i \in DOMAIN rooms : \E event \in SampleEvents :
           LET e == add_event(events, stats, event)
           IN /\ rooms' = [rooms EXCEPT ![i].added = Append(@, [message |-> None,
                                                                event |-> Some(event),
                                                                date |-> None])]
              /\ events' = e.events
              /\ stats' = e.stats
              /\ err' = None
    /\ UNCHANGED <<file, pos, pc, lc, title, date_saved, start_date, end_date, chatroom,
                   log, ret, messages, arg, res, used>>

\* rooms[i].set_end_date(date)
SetEndDate ==
    /\ pc = "caller"
    /\ Calls < MaxCalls
    /\ \E i \in DOMAIN rooms : \E date \in {May01, May02} :
           /\ rooms' = [rooms EXCEPT ![i].self = set_end_date(@, date),
                                     ![i].added = Append(@, [message |-> None,
                                                             event |-> None,
                                                             date |-> Some(date)])]
           /\ err' = None
    /\ UNCHANGED <<file, pos, pc, lc, title, date_saved, start_date, end_date, chatroom,
                   log, ret, messages, events, stats, arg, res, used>>

NextChatroom == NewChatroom \/ AddMessage \/ AddEvent \/ SetEndDate

SpecChatroom == InitChatroom /\ [][NextChatroom]_vars

(***************************************************************************)
(* Chatroom.add_message as a function of the message it is handed and of   *)
(* the state the chatroom is in: the message carries one of the tags that  *)
(* analyze can produce, the chatroom has already taken MaxPrior or fewer   *)
(* messages.                                                               *)
(***************************************************************************)
MaxPrior == 3

\* the tags analyze produces: the keys of rich_content_types, the keys of
\* rich_content_regex and the hour variants of line 419
Tags ==
    {"photo", "video", "file", "link", "youtube_link", "stickers", "voice_call",
     "video_call", "live_talk", "voice_note", "deleted"}

CallTags == {"voice_call", "video_call", "live_talk"}

HourTag(t) == t \o "_hr"

TaggedMessages ==
    {Message(Some(SampleTime), a, "", Some(t), None) : a \in {"Bob", "Carol"}, t \in Tags}
    \cup {Message(Some(SampleTime), "Bob", "", Some(t), Some(65)) : t \in CallTags}
    \cup {Message(Some(SampleTime), "Bob", "", Some(HourTag(t)), Some(3930)) : t \in CallTags}

\* the chatroom after k earlier add_message calls
RECURSIVE Prior(_)
Prior(k) ==
    IF k = 0
    THEN Effect(Chatroom__init__(Some("Alice"), Some(Saved)), <<>>, Chatroom_stats, None)
    ELSE LET before == Prior(k - 1)
             msg == CASE k % 3 = 1 -> Message(Some(SampleTime), "Bob", "Video", Some("video"), None)
                      [] k % 3 = 2 -> Message(Some(SampleTime), "Bob", "", Some("voice_call"),
                                              Some(65))
                      [] OTHER -> Message(Some(SampleTime), "Carol", "Hello there", None, None)
         IN add_message(before.chatroom, before.messages, before.stats, msg, TRUE)

InitTag ==
    /\ arg \in {Some([msg |-> m, prior |-> Prior(k)]) : m \in TaggedMessages, k \in 0..MaxPrior}
    /\ res = None
    /\ pc = "add_message"
    /\ file = <<>>
    /\ pos = 0
    /\ lc = None
    /\ title = None
    /\ date_saved = None
    /\ start_date = None
    /\ end_date = None
    /\ chatroom = None
    /\ err = None
    /\ log = <<>>
    /\ ret = None
    /\ messages = <<>>
    /\ events = <<>>
    /\ stats = Chatroom_stats
    /\ used = {}
    /\ rooms = <<>>

\* chatroom.add_message(msg)
EvalTag ==
    /\ pc = "add_message"
    /\ \E same \in BOOLEAN :
           LET a == Get(arg)
           IN res' = Some(add_message(a.prior.chatroom, a.prior.messages, a.prior.stats,
                                      a.msg, same))
    /\ pc' = "add_message_done"
    /\ UNCHANGED <<file, pos, lc, title, date_saved, start_date, end_date, chatroom,
                   err, log, ret, messages, events, stats, arg, used, rooms>>

NextTag == EvalTag

SpecTag == InitTag /\ [][NextTag]_vars

(***************************************************************************)
(* The expression of lines 378-386 on its own: a message line of locale    *)
(* arg.lc is matched and its time computed under the date context          *)
(* arg.end_date.                                                           *)
(***************************************************************************)
TimeLines(l) ==
    {MessageLine({l}, "", "Bob", h, mi, t, "Photo") :
        h \in 1..12, mi \in {0, 30, 59}, t \in DOMAIN locale_hours[l]}

InitTime ==
    /\ arg \in {Some([lc |-> l, line |-> ln, end_date |-> Some(d)]) :
                   l \in {"en", "ko"}, ln \in TimeLines("en") \cup TimeLines("ko"),
                   d \in {May01, May02}}
    /\ Get(arg).lc \in Get(arg).line.lcs
    /\ res = None
    /\ pc = "message_time"
    /\ file = <<>>
    /\ pos = 0
    /\ lc = None
    /\ title = None
    /\ date_saved = None
    /\ start_date = None
    /\ end_date = None
    /\ chatroom = None
    /\ err = None
    /\ log = <<>>
    /\ ret = None
    /\ messages = <<>>
    /\ events = <<>>
    /\ stats = Chatroom_stats
    /\ used = {}
    /\ rooms = <<>>

EvalTime ==
    /\ pc = "message_time"
    /\ LET a == Get(arg)
       IN res' = Some(message_time(a.lc, a.end_date, Get(match_message(a.lc, a.line))))
    /\ pc' = "message_time_done"
    /\ UNCHANGED <<file, pos, lc, title, date_saved, start_date, end_date, chatroom,
                   err, log, ret, messages, events, stats, arg, used, rooms>>

NextTime == EvalTime

SpecTime == InitTime /\ [][NextTime]_vars

(***************************************************************************)
(* What the specification expects of a file                                *)
(***************************************************************************)
\* the locale whose metadata-1 pattern matches the first line, tried in order
LocaleOf(f) ==
    LET found == {i \in DOMAIN locales :
                     Len(f) >= 1 /\ ~IsNone(match_metadata_1(locales[i], f[1]))}
    IN IF found = {} THEN None
       ELSE Some(locales[CHOOSE j \in found : \A k \in found : j <= k])

\* the first two lines are the two metadata lines of one supported locale
HeaderValid(f) ==
    /\ Len(f) >= 2
    /\ ~IsNone(LocaleOf(f))
    /\ ~IsNone(match_metadata_2(Get(LocaleOf(f)), f[2]))

\* the lines after the header and the line that follows it
Body(f) == SubSeq(f, 4, Len(f))

IsMessage(l, line) == ~IsNone(match_message(l, line))
IsDateTag(l, line) == ~IsMessage(l, line) /\ ~IsNone(match_date_tag(l, line))
IsEvent(l, line) ==
    /\ ~IsMessage(l, line)
    /\ IsNone(match_date_tag(l, line))
    /\ match_event(l, "invite", line) \/ match_event(l, "leave", line)
IsUnmatched(l, line) == ~IsMessage(l, line) /\ ~IsDateTag(l, line) /\ ~IsEvent(l, line)

EventKind(l, line) == IF match_event(l, "invite", line) THEN "invite" ELSE "leave"

\* number of lines among the first n of b that satisfy P
CountUpTo(b, n, P(_)) == Cardinality({i \in 1..n : P(b[i])})

\* the date written on the last date tag among the first n lines of b
LastTagDate(l, b, n) ==
    LET tags == {i \in 1..n : IsDateTag(l, b[i])}
    IN IF tags = {} THEN None
       ELSE Some(b[CHOOSE i \in tags : \A j \in tags : j <= i].date)

FirstTagDate(l, b) ==
    LET tags == {i \in DOMAIN b : IsDateTag(l, b[i])}
    IN IF tags = {} THEN None
       ELSE Some(b[CHOOSE i \in tags : \A j \in tags : i <= j].date)

\* a message line whose time cannot be computed: unknown AM/PM token, empty
\* hour digits, or an hour outside 1..12
FailsSecondaryParsing(l, line) ==
    /\ IsMessage(l, line)
    /\ \/ line.ampm \notin DOMAIN locale_hours[l]
       \/ line.hour \notin 1..12

Finished == pc = "done"

(***************************************************************************)
(* C1.  Every body line is resolved into exactly one category, message     *)
(* first, then date tag, then event (invite before leave), then            *)
(* continuation: when the parse of a file with a well-formed header is     *)
(* over, every line matching the message pattern has been recorded as a    *)
(* Message, whatever else it matches, and exactly the lines that match an  *)
(* event pattern and neither the message nor the date-tag pattern have     *)
(* been recorded as Events of the first matching kind, in file order.      *)
(***************************************************************************)
C1_FirstMatchWins ==
    (Finished /\ HeaderValid(file)) =>
        LET l == Get(LocaleOf(file))
            b == Body(file)
            msgLines == SelectSeq(b, LAMBDA x : IsMessage(l, x))
            evLines == SelectSeq(b, LAMBDA x : IsEvent(l, x))
        IN /\ Len(messages) = Len(msgLines)
           /\ \A i \in DOMAIN messages : messages[i].author = msgLines[i].author
           /\ Len(events) = Len(evLines)
           /\ \A i \in DOMAIN events : events[i].event_type = EventKind(l, evLines[i])

(***************************************************************************)
(* C2.  A body line that matches no pattern is appended, after a newline,  *)
(* to the content of the most recently emitted Message and to no other     *)
(* record; with no Message emitted yet it is dropped and nothing changes.  *)
(* Checked on bodies that are message lines followed by unmatched lines:   *)
(* the last Message holds the content of the last message line followed by *)
(* the unmatched lines, the earlier Messages hold their own content.       *)
(***************************************************************************)
RECURSIVE Joined(_, _)
Joined(content, ls) ==
    IF ls = <<>> THEN content ELSE Joined(content \o "\n" \o Head(ls).text, Tail(ls))

C2_Continuation ==
    (Finished /\ HeaderValid(file)) =>
        LET l == Get(LocaleOf(file))
            b == Body(file)
            n == CountUpTo(b, Len(b), LAMBDA x : IsMessage(l, x))
        IN (/\ \A i \in DOMAIN b : IsMessage(l, b[i]) \/ IsUnmatched(l, b[i])
            /\ \A i \in DOMAIN b : IsMessage(l, b[i]) <=> i <= n)
           => /\ Len(messages) = n
              /\ events = <<>>
              /\ end_date = None
              /\ \A i \in 1..n :
                    messages[i].content =
                        IF i < n THEN b[i].content
                        ELSE Joined(b[n].content, SubSeq(b, n + 1, Len(b)))

(***************************************************************************)
(* C3.  Every Message emitted after a date-tag line carries the date       *)
(* written on the most recent date-tag line, the hour raw_hour + offset of *)
(* the line's AM/PM token and the line's minute: when the parse is over,   *)
(* each message line that follows a date tag has its Message, with that    *)
(* timestamp.                                                              *)
(***************************************************************************)
C3_Timestamp ==
    (Finished /\ HeaderValid(file)) =>
        LET l == Get(LocaleOf(file))
            b == Body(file)
        IN \A i \in DOMAIN b :
              (/\ IsMessage(l, b[i])
               /\ ~IsNone(LastTagDate(l, b, i))
               /\ \A j \in 1..i : ~FailsSecondaryParsing(l, b[j]))
              => LET k == CountUpTo(b, i, LAMBDA x : IsMessage(l, x))
                     d == Get(LastTagDate(l, b, i))
                 IN /\ k \in DOMAIN messages
                    /\ ~IsNone(messages[k].time)
                    /\ Get(messages[k].time).year = d.year
                    /\ Get(messages[k].time).month = d.month
                    /\ Get(messages[k].time).day = d.day
                    /\ Get(messages[k].time).hour
                          = b[i].hour + locale_hours[l][b[i].ampm]
                    /\ Get(messages[k].time).minute = b[i].minute

(***************************************************************************)
(* C4.  For a message line with an hour in 1..12 the decoded hour is in    *)
(* 0..11 with the AM token and in 12..23 with the PM token, hour 12 with   *)
(* the AM token decodes to 0, and no decoded hour lies outside 0..23.      *)
(***************************************************************************)
C4_DecodedHour ==
    pc = "message_time_done" =>
        LET a == Get(arg)
            r == Get(res)
            am == locale_hours[a.lc][a.line.ampm] = 0
        IN /\ IsNone(r.exc)
           /\ ~IsNone(Get(r.val))
           /\ am => Get(Get(r.val)).hour \in 0..11
           /\ ~am => Get(Get(r.val)).hour \in 12..23
           /\ (am /\ a.line.hour = 12) => Get(Get(r.val)).hour = 0

(***************************************************************************)
(* C5.  The nine-line English example yields two Messages (Bob at 15:15,   *)
(* "Hello there\ncontinued line", no rich content; Bob at 15:16, photo),   *)
(* two Events (invite, leave) and the date context 2021-05-01.             *)
(***************************************************************************)
C5_Example ==
    (Finished /\ file = ExampleFile) =>
        /\ Len(messages) = 2
        /\ messages[1] = Message(Some(DateTime(2021, 5, 1, 15, 15, 0)), "Bob",
                                 "Hello there\ncontinued line", None, None)
        /\ messages[2] = Message(Some(DateTime(2021, 5, 1, 15, 16, 0)), "Bob",
                                 "Photo", Some("photo"), None)
        /\ Len(events) = 2
        /\ events[1].event_type = "invite"
        /\ events[2].event_type = "leave"
        /\ end_date = Some(May01)

(***************************************************************************)
(* C6.  For a file whose first two lines are the metadata lines of a       *)
(* supported locale, analyze returns a Chatroom whose title is the text    *)
(* captured from the first line and whose date_saved is the timestamp      *)
(* captured from the second.                                               *)
(***************************************************************************)
C6_Header ==
    (Finished /\ HeaderValid(file)) =>
        /\ ~IsNone(ret)
        /\ Get(ret).title = match_metadata_1(Get(LocaleOf(file)), file[1])
        /\ Get(ret).date_saved = match_metadata_2(Get(LocaleOf(file)), file[2])

(***************************************************************************)
(* C7.  If the file is empty or its first two lines are not the metadata   *)
(* lines of a supported locale, the parse ends in a fatal error: the loop  *)
(* over the body is never entered and no line beyond the second is read,   *)
(* no Message or Event is added, no Chatroom is constructed or returned,   *)
(* and the error is logged.                                                *)
(***************************************************************************)
C7_FatalHeader ==
    ~HeaderValid(file) =>
        /\ pc # "for_line"
        /\ pos <= 2
        /\ messages = <<>>
        /\ events = <<>>
        /\ IsNone(chatroom)
        /\ IsNone(ret)
        /\ pc \in {"return", "done"} => "kakaotalk.Chatroom is not initialized"
                                           \in {log[i] : i \in DOMAIN log}

\* an unsupported header in front of further lines, parsed to the end
C7_Witness ==
    /\ Finished
    /\ ~HeaderValid(file)
    /\ Len(file) > 2
    /\ Len(log) = 2
    /\ IsNone(ret)

(***************************************************************************)
(* C8.  A body line that matches a category and fails secondary parsing is *)
(* skipped on its own: the lines after it are still processed, so at the   *)
(* end of the parse the whole file has been read and every event line of   *)
(* the body has its Event.                                                 *)
(***************************************************************************)
C8_SkipLineOnly ==
    (Finished /\ HeaderValid(file)) =>
        LET l == Get(LocaleOf(file))
            b == Body(file)
        IN (\E i \in DOMAIN b : FailsSecondaryParsing(l, b[i]))
           => /\ pos = Len(file)
              /\ Len(events) = CountUpTo(b, Len(b), LAMBDA x : IsEvent(l, x))

(***************************************************************************)
(* C9.  A message line before any date-tag line is accepted: its Message   *)
(* is in the message sequence with an unset timestamp, the lines after it  *)
(* are processed, and message_count equals the length of the sequence.     *)
(***************************************************************************)
C9_UndatedMessage ==
    (Finished /\ HeaderValid(file)) =>
        LET l == Get(LocaleOf(file))
            b == Body(file)
        IN (Len(b) >= 1 /\ IsMessage(l, b[1]))
           => /\ Len(messages) >= 1
              /\ IsNone(messages[1].time)
              /\ pos = Len(file)
              /\ ~IsNone(chatroom)
              /\ Get(chatroom).message_count = Len(messages)

(***************************************************************************)
(* C10.  A date-tag line emits no record and only sets the date context    *)
(* (and, for the first one, the start boundary); after the parse the       *)
(* chatroom exposes the first date-tag value as its start date and the     *)
(* last one as its end date.                                               *)
(***************************************************************************)
C10_DateBoundaries ==
    (Finished /\ HeaderValid(file)) =>
        LET l == Get(LocaleOf(file))
            b == Body(file)
        IN ~IsNone(FirstTagDate(l, b))
           => /\ ~IsNone(ret)
              /\ Get(ret).start_date = FirstTagDate(l, b)
              /\ Get(ret).end_date = LastTagDate(l, b, Len(b))

C12_RoundTrip ==
    (Finished /\ HeaderValid(file)) =>
        LET l == Get(LocaleOf(file))
            b == Body(file)
        IN (/\ Len(b) >= 2
            /\ IsMessage(l, b[1])
            /\ \A i \in 2..Len(b) : IsUnmatched(l, b[i]))
           => /\ Len(messages) = 1
              /\ messages[1].content = Joined(b[1].content, Tail(b))

ExpectedTag(l, c) ==
    IF c.shape = "text" \/ l \notin c.lcs THEN None
    ELSE CASE c.shape = "voice_call_hr" -> Some("voice_call")
           [] c.shape = "video_call_hr" -> Some("video_call")
           [] c.shape = "live_talk_hr" -> Some("live_talk")
           [] OTHER -> Some(c.shape)

ExpectedDuration(l, c) ==
    IF l \in c.lcs /\ c.shape \in {"voice_call", "video_call", "live_talk", "voice_call_hr",
                                   "video_call_hr", "live_talk_hr"}
    THEN Some(c.h * 3600 + c.m * 60 + c.s)
    ELSE None

Classified == pc = "rich_content_done"

(***************************************************************************)
(* C14.  The classification of a content tries the exact labels, then the  *)
(* presence patterns youtube_link, link, file, then the duration patterns, *)
(* and the first entry that the content satisfies gives the tag: a content *)
(* written from a presence or duration pattern is classified without an    *)
(* exception and gets the tag of that pattern, a YouTube URL youtube_link  *)
(* and not link.                                                           *)
(***************************************************************************)
C14_TierOrder ==
    Classified =>
        LET a == Get(arg)
            rc == Get(res).rc
        IN (a.lc \in a.content.lcs
            /\ a.content.shape \in {"youtube_link", "link", "file", "voice_call",
                                    "video_call", "live_talk", "voice_call_hr",
                                    "video_call_hr", "live_talk_hr"})
           => /\ IsNone(rc.exc)
              /\ ~IsNone(Get(rc.val).rich_content_type)
              /\ strip_hr(Get(Get(rc.val).rich_content_type)) = Get(ExpectedTag(a.lc, a.content))

(***************************************************************************)
(* C15.  A message whose content is one of the five exact labels of the    *)
(* locale is emitted with that tag, and a message whose content satisfies  *)
(* no tier is emitted with no rich-content type and no duration; in both   *)
(* cases no exception ends the parse.                                      *)
(***************************************************************************)
C15_LabelsAndPlain ==
    Classified =>
        LET a == Get(arg)
            r == Get(res)
        IN (\/ a.content.shape = "text"
            \/ a.lc \notin a.content.lcs
            \/ a.content.shape \in {"stickers", "photo", "video", "deleted", "voice_note"})
           => /\ IsNone(r.rc.exc)
              /\ ~IsNone(r.added)
              /\ IsNone(Get(r.added).exc)
              /\ Len(Get(r.added).messages) = 1
              /\ Get(r.added).messages[1].content = a.content.text
              /\ Get(r.added).messages[1].rich_content_type = ExpectedTag(a.lc, a.content)
              /\ Get(r.added).messages[1].rich_content_duration = None

(***************************************************************************)
(* C16.  A call or live-talk content written minutes:seconds is emitted    *)
(* with duration m*60+s and the base tag, and one written                  *)
(* hours:minutes:seconds with duration h*3600+m*60+s under the base tag    *)
(* without the hour-variant suffix: "Voice Call 05:30" gives 330 seconds   *)
(* and "Voice Call 01:05:30" gives 3930 seconds, both tagged voice_call;   *)
(* likewise for video_call and live_talk, in both locales.                 *)
(***************************************************************************)
C16_Duration ==
    Classified =>
        LET a == Get(arg)
            r == Get(res)
        IN ~IsNone(ExpectedDuration(a.lc, a.content))
           => /\ IsNone(r.rc.exc)
              /\ ~IsNone(r.added)
              /\ Len(Get(r.added).messages) = 1
              /\ Get(r.added).messages[1].rich_content_type = ExpectedTag(a.lc, a.content)
              /\ Get(r.added).messages[1].rich_content_duration
                     = ExpectedDuration(a.lc, a.content)

(***************************************************************************)
(* C17.  A body line that matches neither the message nor the date-tag     *)
(* pattern and matches an event pattern emits exactly one Event, invite if *)
(* the invite pattern matches and leave otherwise, appended to the event   *)
(* sequence; it creates and changes no Message.  Checked on bodies of      *)
(* event lines and unmatched lines: when the parse is over the event       *)
(* sequence holds one Event per event line, in file order, with the kind   *)
(* and the text of its line, and there is no Message.                      *)
(***************************************************************************)
C17_EventEmitted ==
    (Finished /\ HeaderValid(file)) =>
        LET l == Get(LocaleOf(file))
            b == Body(file)
            evLines == SelectSeq(b, LAMBDA x : IsEvent(l, x))
        IN (/\ evLines # <<>>
            /\ \A i \in DOMAIN b : IsEvent(l, b[i]) \/ IsUnmatched(l, b[i]))
           => /\ events = [i \in DOMAIN evLines |->
                              Event(EventKind(l, evLines[i]), raw(evLines[i]))]
              /\ stats.event_count.invite + stats.event_count.leave = Len(evLines)
              /\ messages = <<>>

(***************************************************************************)
(* C18.  The state of a chatroom is its own: a newly constructed Chatroom  *)
(* has an empty message sequence, an empty event sequence and zeroed       *)
(* counters whatever was added to chatrooms constructed before it, and     *)
(* adding a Message or an Event to one chatroom leaves the sequences and   *)
(* counter mappings of every other chatroom unchanged.  So at any time the *)
(* sequences and counters a chatroom exposes are those of the records that *)
(* were added to that chatroom.                                            *)
(***************************************************************************)
C18_PerInstanceState ==
    \A i \in DOMAIN rooms :
        LET ownMessages == SelectSeq(rooms[i].added, LAMBDA x : ~IsNone(x.message))
            ownEvents == SelectSeq(rooms[i].added, LAMBDA x : ~IsNone(x.event))
        IN /\ Len(messages) = Len(ownMessages)
           /\ \A j \in DOMAIN messages :
                  /\ messages[j].author = Get(ownMessages[j].message).author
                  /\ messages[j].content = Get(ownMessages[j].message).content
           /\ events = [j \in DOMAIN ownEvents |-> Get(ownEvents[j].event)]
           /\ rooms[i].self.message_count = Len(ownMessages)
           /\ stats.event_count.invite + stats.event_count.leave = Len(ownEvents)
           /\ IF ownMessages = <<>>
              THEN /\ stats.message_count_by_participant = <<>>
                   /\ stats.message_count_by_month = <<>>
                   /\ \A t \in DOMAIN stats.rich_content_count :
                          stats.rich_content_count[t] = 0
              ELSE LET timed == SelectSeq(ownMessages,
                                          LAMBDA x : ~IsNone(Get(x.message).time))
                   IN IF timed = <<>>
                      THEN stats.message_count_by_time_of_day = <<>>
                      ELSE /\ SampleTime.hour \in DOMAIN stats.message_count_by_time_of_day
                           /\ stats.message_count_by_time_of_day[SampleTime.hour] = Len(timed)

(***************************************************************************)
(* C19.  The two fatal header failures are reported differently: for a     *)
(* first line that matches no supported locale the first record logged is  *)
(* "locale not supported or format not recognized", and for a first line   *)
(* that matches a locale followed by a second line that does not match     *)
(* that locale's saved-timestamp pattern it is "cannot read the metadata   *)
(* of the file"; the first message is logged in no other case.             *)
(***************************************************************************)
C19_Distinguishable ==
    Len(log) >= 1 =>
        /\ IsNone(LocaleOf(file))
           <=> log[1] = "locale not supported or format not recognized"
        /\ (~IsNone(LocaleOf(file)) /\ ~HeaderValid(file))
           => log[1] = "cannot read the metadata of the file"

C19_Witness ==
    /\ Finished
    /\ Len(file) >= 2
    /\ file[1] = KoMetadata1
    /\ file[2] = EnMetadata2
    /\ log[1] = "cannot read the metadata of the file"
    /\ \A i \in DOMAIN log : log[i] # "locale not supported or format not recognized"

(***************************************************************************)
(* C20.  The parse goes through the first metadata line, the second        *)
(* metadata line, the line after the header and the body, in that order:   *)
(* no Message or Event exists before both metadata lines have been read    *)
(* and accepted, each header line is read once, and a third line that is   *)
(* not blank is not lost: when the parse of a file with a well-formed      *)
(* header is over, a third line that is a message line has been emitted as *)
(* the first Message and a third line that is a date tag has set the date  *)
(* context.                                                                *)
(***************************************************************************)
C20_ThirdLineKept ==
    /\ (messages # <<>> \/ events # <<>>) => (pos >= 2 /\ HeaderValid(file))
    /\ pc = "metadata_1" => pos = 0
    /\ pc = "metadata_2" => pos = 1
    /\ (Finished /\ HeaderValid(file) /\ Len(file) >= 3) =>
           LET l == Get(LocaleOf(file))
           IN /\ IsMessage(l, file[3])
                 => /\ Len(messages) >= 1
                    /\ messages[1].author = file[3].author
                    /\ messages[1].content = file[3].content
              /\ IsDateTag(l, file[3]) => ~IsNone(end_date)

RECURSIVE Grown(_, _, _)
Grown(content, x, k) ==
    IF k = 0 THEN content ELSE Grown(content \o "\n" \o x, x, k - 1)

\* content is the content of the message line followed by unmatched lines
StartsWith(content, line) ==
    \E k \in 0..Len(file) : content = Grown(line.content, raw(Continued), k)

RECURSIVE SumOver(_, _)
SumOver(d, keys) ==
    IF keys = {} THEN 0
    ELSE LET k == CHOOSE x \in keys : TRUE
         IN d[k] + SumOver(d, keys \ {k})

Total(d) == SumOver(d, DOMAIN d)

(***************************************************************************)
(* C23.  After any sequence of add_message and add_event calls on a        *)
(* chatroom, calls that ended in an exception included, the counters agree *)
(* with the stored sequences: message_count is the number of stored        *)
(* messages, the counts of message_count_by_participant add up to          *)
(* message_count, so do the counts of message_count_by_time_of_day, and    *)
(* the invite and leave counts of event_count add up to the number of      *)
(* stored events.                                                          *)
(***************************************************************************)
C23_CountersAgree ==
    \A i \in DOMAIN rooms :
        /\ rooms[i].self.message_count = Len(messages)
        /\ Total(stats.message_count_by_participant) = rooms[i].self.message_count
        /\ Total(stats.message_count_by_time_of_day) = rooms[i].self.message_count
        /\ stats.event_count.invite + stats.event_count.leave = Len(events)

(***************************************************************************)
(* C24.  For every tag of the closed set (photo, video, file, link,        *)
(* youtube_link, stickers, voice_call, video_call, live_talk, voice_note,  *)
(* deleted) and for each hour variant of a call tag, add_message ends      *)
(* without an exception, the message it stores carries the tag without the *)
(* "_hr" suffix, rich_content_count of exactly that normalized tag grows   *)
(* by one, and when the message has a duration rich_content_duration of    *)
(* that tag grows by exactly the duration; every other entry of the two    *)
(* mappings is unchanged.                                                  *)
(***************************************************************************)
C24_TagCounted ==
    pc = "add_message_done" =>
        LET a == Get(arg)
            e == Get(res)
            t == strip_hr(Get(a.msg.rich_content_type))
            before == a.prior.stats
            after == e.stats
        IN /\ IsNone(e.exc)
           /\ t \in Tags
           /\ Len(e.messages) = Len(a.prior.messages) + 1
           /\ e.messages[Len(e.messages)].rich_content_type = Some(t)
           /\ DOMAIN after.rich_content_count = DOMAIN before.rich_content_count
           /\ t \in DOMAIN after.rich_content_count
           /\ \A k \in DOMAIN after.rich_content_count :
                  after.rich_content_count[k] =
                      before.rich_content_count[k] + (IF k = t THEN 1 ELSE 0)
           /\ DOMAIN after.rich_content_duration = DOMAIN before.rich_content_duration
           /\ \A k \in DOMAIN after.rich_content_duration :
                  after.rich_content_duration[k] =
                      before.rich_content_duration[k]
                      + (IF k = t /\ ~IsNone(a.msg.rich_content_duration)
                         THEN Get(a.msg.rich_content_duration) ELSE 0)

\* the positions of the set_end_date calls among the calls made on a chatroom
DateCalls(h) == {j \in DOMAIN h : ~IsNone(h[j].date)}

\* the days closed by the calls h: one for each set_end_date call that is
\* followed by another, with its date and the messages added in between
ClosedDays(h) ==
    {[date |-> h[p].date,
      added |-> SelectSeq(SubSeq(h, p + 1, q - 1), LAMBDA x : ~IsNone(x.message))] :
        <<p, q>> \in {pq \in DateCalls(h) \X DateCalls(h) :
                        /\ pq[1] < pq[2]
                        /\ \A j \in DateCalls(h) : ~(pq[1] < j /\ j < pq[2])}}

AllOfDay(x) == TRUE
MediaOfDay(x) == Get(x.message).rich_content_type \in {Some("photo"), Some("video")}
StickerOfDay(x) == Get(x.message).rich_content_type \in {Some("sticker"), Some("stickers")}

\* most_active is the largest count among the closed days with the date of a
\* day that reached it; with no day closed it is the initial (None, -1)
IsMostActive(most_active, days, Counted(_)) ==
    IF IsNone(most_active.date)
    THEN most_active.count = -1 /\ days = {}
    ELSE /\ \E d \in days : /\ d.date = most_active.date
                            /\ Len(SelectSeq(d.added, Counted)) = most_active.count
         /\ \A d \in days : Len(SelectSeq(d.added, Counted)) <= most_active.count

(***************************************************************************)
(* C25.  Across any sequence of add_message and set_end_date calls on a    *)
(* chatroom, set_end_date closes the current day: after it end_date is the *)
(* date passed, the three per-day counters are zero and day_count is the   *)
(* number of set_end_date calls made; and date_most_active_message is the  *)
(* largest message count among the days closed so far paired with the date *)
(* of a day that reached it, never a missing date paired with a count and  *)
(* never the date of another day.  The same holds of the media and sticker *)
(* maxima.                                                                 *)
(***************************************************************************)
C25_MostActiveDay ==
    \A i \in DOMAIN rooms :
        LET h == rooms[i].added
            c == rooms[i].self
        IN /\ c.day_count = Cardinality(DateCalls(h))
           /\ (h # <<>> /\ ~IsNone(h[Len(h)].date)) =>
                  /\ c.end_date = h[Len(h)].date
                  /\ c.date_message_count = 0
                  /\ c.date_media_count = 0
                  /\ c.date_sticker_count = 0
           /\ IsMostActive(c.date_most_active_message, ClosedDays(h), AllOfDay)
           /\ IsMostActive(c.date_most_active_media, ClosedDays(h), MediaOfDay)
           /\ IsMostActive(c.date_most_active_sticker, ClosedDays(h), StickerOfDay)

====
